---- MODULE Spec2Model ----
(***************************************************************************)
(* Model of src/main.py: the Streamlit "AI Data Extraction Dashboard".     *)
(* One script run is modelled: module-level configuration is read,         *)
(* Dashboard.__init__ validates it and builds the clients, setup_ui loads  *)
(* a table, show_data_processing_options runs the per-row loop             *)
(* (format -> WebSearcher.search -> GroqProcessor.process_results) and     *)
(* finally displays the result table and offers it for download.           *)
(*                                                                         *)
(* Text the program parses (the query template) is a sequence of           *)
(* one-character strings; all other text is a TLA+ string.                 *)
(***************************************************************************)
EXTENDS Integers, Sequences, FiniteSets, TLC

VARIABLES
    env,               \* module globals SERPAPI_KEY, GROQ_API_KEY, GOOGLE_CREDS_PATH
    pc,                \* position of the script run
    components,        \* objects constructed by Dashboard.__init__
    data,              \* Dashboard.data: None or the loaded table
    selected_columns,  \* value of the multiselect widget
    query_template,    \* value of the text_input widget (character sequence)
    results,           \* local list `results` of the Extract handler
    idx,               \* 1-based position of the loop over data.iterrows()
    net,               \* outbound HTTP requests, in order of issue
    ui,                \* what streamlit has rendered, in order
    slept,             \* total time spent in time.sleep
    raised,            \* exception that escaped the script ("none" if none)
    results_df,        \* the DataFrame built after the loop
    displayed,         \* st.dataframe(results_df) has been rendered
    download,          \* the st.download_button offer
    source,            \* what the Input Loader was given to read
    fmt                \* result of the last query_template.format(entity=...)

vars == <<env, pc, components, data, selected_columns, query_template, results,
          idx, net, ui, slept, raised, results_df, displayed, download, source,
          fmt>>

----------------------------------------------------------------------------
(* Bounds of the model *)

\* longest loaded table, in rows
MaxRows == 2

\* longest query template of the formatting specification, in pieces
MaxPieces == 4

----------------------------------------------------------------------------
(* Values *)

\* os.getenv of a variable that is not set
Unset == "<unset>"

\* Python's None for Dashboard.data
None == [none |-> TRUE]

\* an empty dict, also the default of dict.get(..., {})
EmptyDict == <<>>

RECURSIVE Str(_)
\* the string spelled by a character sequence
Str(chars) == IF chars = <<>> THEN "" ELSE Head(chars) \o Str(Tail(chars))

RECURSIVE Join(_, _)
\* sep.join(strings)
Join(sep, strings) ==
    IF strings = <<>> THEN ""
    ELSE IF Len(strings) = 1 THEN strings[1]
    ELSE strings[1] \o sep \o Join(sep, Tail(strings))

\* dict.get(key, default)
Get(d, key, default) == IF key \in DOMAIN d THEN d[key] ELSE default

\* sequences over S of length at most n
SeqUpTo(S, n) == UNION {[1..k -> S] : k \in 0..n}

----------------------------------------------------------------------------
(* str.format(entity=entity), as CPython's MarkupIterator does it *)

FmtOk(text) == [exc |-> "none", val |-> text]
FmtRaise(name) == [exc |-> name, val |-> ""]

IsBrace(c) == c \in {"{", "}"}

\* the keyword arguments of the call: only `entity`
get_field_object(field_name, entity) ==
    IF field_name = <<>> THEN FmtRaise("IndexError")     \* auto-numbered {}: no positional args
    ELSE IF Str(field_name) = "entity" THEN FmtOk(entity)
    ELSE FmtRaise("KeyError")

\* position of the first brace at or after `from`, Len+1 if there is none
NextBrace(template, from) ==
    LET hits == {j \in from..Len(template) : IsBrace(template[j])}
    IN  IF hits = {} THEN Len(template) + 1
        ELSE CHOOSE j \in hits : \A k \in hits : j <= k

RECURSIVE do_markup(_, _, _, _)
do_markup(template, entity, pos, out) ==
    IF pos > Len(template) THEN FmtOk(out)
    ELSE LET c == template[pos]
             at_end == pos = Len(template)
         IN
         IF ~IsBrace(c) THEN do_markup(template, entity, pos + 1, out \o c)
         ELSE IF c = "}" /\ (at_end \/ template[pos + 1] # c)
              THEN FmtRaise("ValueError")         \* Single '}' encountered
         ELSE IF c = "{" /\ at_end
              THEN FmtRaise("ValueError")         \* Single '{' encountered
         ELSE IF template[pos + 1] = c
              THEN do_markup(template, entity, pos + 2, out \o c)   \* {{ or }}
         ELSE \* a replacement field starts after the '{'
              LET close == NextBrace(template, pos + 1)
              IN  IF close > Len(template)
                  THEN FmtRaise("ValueError")     \* expected '}' before end of string
                  ELSE IF template[close] = "{"
                  THEN FmtRaise("ValueError")     \* unexpected '{' in field name
                  ELSE LET obj == get_field_object(
                                      SubSeq(template, pos + 1, close - 1), entity)
                       IN  IF obj.exc # "none" THEN obj
                           ELSE do_markup(template, entity, close + 1, out \o obj.val)

\* variant: the entity is appended to whatever the template produced
FormatQuery_append(template, entity) ==
    LET f == do_markup(template, entity, 1, "")
    IN  IF f.exc = "none" THEN FmtOk(f.val \o " " \o entity) ELSE f

\* query_template.format(entity=entity)
FormatQuery(template, entity) == do_markup(template, entity, 1, "")

----------------------------------------------------------------------------
(* Module-level configuration and validate_api_keys *)

\* the files os.path.exists finds
ExistingFiles == {"creds.json"}

os_path_exists(path) == path \in ExistingFiles

\* `not value` for a value read with os.getenv
Falsy(value) == value \in {Unset, ""}

Environments ==
    [SERPAPI_KEY : {Unset, "", "serp-key"},
     GROQ_API_KEY : {Unset, "", "groq-key"},
     GOOGLE_CREDS_PATH : {Unset, "", "missing.json", "creds.json"}]

\* variant: the credential path is only checked for being set
missing_keys_unchecked_path(e) ==
    (IF Falsy(e.SERPAPI_KEY) THEN <<"SERPAPI_KEY">> ELSE <<>>)
    \o (IF Falsy(e.GROQ_API_KEY) THEN <<"GROQ_API_KEY">> ELSE <<>>)
    \o (IF Falsy(e.GOOGLE_CREDS_PATH) THEN <<"GOOGLE_CREDS_PATH">> ELSE <<>>)

\* the list missing_keys built by validate_api_keys
missing_keys(e) ==
    (IF Falsy(e.SERPAPI_KEY) THEN <<"SERPAPI_KEY">> ELSE <<>>)
    \o (IF Falsy(e.GROQ_API_KEY) THEN <<"GROQ_API_KEY">> ELSE <<>>)
    \o (IF Falsy(e.GOOGLE_CREDS_PATH) \/ ~os_path_exists(e.GOOGLE_CREDS_PATH)
        THEN <<"GOOGLE_CREDS_PATH">> ELSE <<>>)

Rendered(kind, text) == [kind |-> kind, text |-> text]

----------------------------------------------------------------------------
(* Tables and the Input Loader *)

Columns == <<"Name", "City">>

RowSet == {[Name |-> "Paris", City |-> "12345"],
           [Name |-> "12345", City |-> "Paris"]}

Tables == {[columns |-> Columns, rows |-> r] : r \in SeqUpTo(RowSet, MaxRows)}

\* pd.DataFrame(records): the columns are taken from the records
DataFrame(records) ==
    [columns |-> IF records = <<>> THEN <<>> ELSE Columns, rows |-> records]

\* what pd.read_csv finds in the uploaded file: a header and rows, or a reason
\* to raise
UploadedFiles ==
    {[kind |-> "csv", error |-> "none", records |-> r] : r \in SeqUpTo(RowSet, MaxRows)}
    \cup {[kind |-> "csv", error |-> "Error tokenizing data", records |-> <<>>],
          [kind |-> "csv", error |-> "No columns to parse from file", records |-> <<>>]}

\* pd.read_csv of a well-formed file: the header gives the columns
read_csv(file) == [columns |-> Columns, rows |-> file.records]

\* what the spreadsheet provider answers: the records of sheet1, or a failure of
\* the credential file, of the transport, or of open_by_url
Sheets ==
    {[kind |-> "gsheet", error |-> "none", records |-> r] :
        r \in SeqUpTo(RowSet, MaxRows)}
    \cup {[kind |-> "gsheet", error |-> "invalid service account key", records |-> <<>>],
          [kind |-> "gsheet", error |-> "Connection aborted", records |-> <<>>],
          [kind |-> "gsheet", error |-> "SpreadsheetNotFound", records |-> <<>>]}

\* no file uploaded, no URL entered
NoSource == [kind |-> "none", error |-> "none", records |-> <<>>]

\* variant: a failed read returns an empty table instead of None
load_csv_empty_on_error(file) ==
    IF file.error = "none"
    THEN [df |-> read_csv(file),
          msg |-> Rendered("success",
                    "CSV file loaded successfully,Thank You for providing Data.")]
    ELSE [df |-> [columns |-> Columns, rows |-> <<>>],
          msg |-> Rendered("error", "Error loading CSV: " \o file.error)]

\* DataManager.load_csv: the value returned and the message rendered
load_csv(file) ==
    IF file.error = "none"
    THEN [df |-> read_csv(file),
          msg |-> Rendered("success",
                    "CSV file loaded successfully,Thank You for providing Data.")]
    ELSE [df |-> None,
          msg |-> Rendered("error", "Error loading CSV: " \o file.error)]

\* DataManager.load_gsheet
load_gsheet(sheet) ==
    IF sheet.error = "none"
    THEN [df |-> DataFrame(sheet.records),
          msg |-> Rendered("success",
                    "Google Sheet loaded successfully,Thank You for providing Data.")]
    ELSE [df |-> None,
          msg |-> Rendered("error", "Error loading Google Sheet: " \o sheet.error)]

----------------------------------------------------------------------------
(* The two HTTP clients *)

\* WebSearcher.rate_limit_delay
rate_limit_delay == 1

Json(type, value) == [type |-> type, value |-> value]

\* a reply whose body is no JSON document
InvalidJson == Json("invalid", EmptyDict)

\* status 0: requests raised before any reply (transport failure)
Reply(status, error, json) == [status |-> status, error |-> error, json |-> json]

\* Response.raise_for_status raises for 4xx and 5xx
HttpError(reply) == reply.status >= 400

SearchReplies ==
    { Reply(0, "Connection refused", InvalidJson),
      Reply(401, "401 Client Error", Json("object", [error |-> "Invalid API key."])),
      Reply(200, "Expecting value", InvalidJson),
      Reply(200, "", Json("array", <<>>)),
      Reply(200, "", Json("object",
            [error |-> "Google hasn't returned any results for this query.",
             organic_results |-> <<[snippet |-> "s0"]>>])),
      Reply(200, "", Json("object",
            [organic_results |-> <<[snippet |-> "s1"], [title |-> "t2"]>>])),
      Reply(200, "", Json("object", [search_metadata |-> "Success"])) }

\* WebSearcher.search: the value returned, the warning rendered ("" if none) and
\* the time slept
search(query, reply) ==
    LET failed(msg, delay) ==
            [ret |-> Json("object", [error |-> msg]),
             warning |-> "Search error for query '" \o query \o "': " \o msg,
             sleep |-> delay]
    IN  IF reply.status = 0 THEN failed(reply.error, 0)
        ELSE IF HttpError(reply) THEN failed(reply.error, 0)
        ELSE IF reply.json.type = "invalid" THEN failed(reply.error, rate_limit_delay)
        ELSE [ret |-> reply.json, warning |-> "", sleep |-> rate_limit_delay]

GroqReplies ==
    { Reply(0, "Connection refused", InvalidJson),
      Reply(401, "401 Client Error", Json("object", [error |-> "Invalid API Key"])),
      Reply(200, "Expecting value", InvalidJson),
      Reply(200, "", Json("object", [choices |-> <<>>])),
      Reply(200, "", Json("object", [id |-> "chatcmpl-1"])),
      Reply(200, "", Json("object",
            [choices |-> <<[message |-> [content |-> "France"]]>>])) }

\* the JSON body process_results posts
GroqPayload(query, context) ==
    [model |-> "llama3-8b-8192",
     messages |-> <<[role |-> "user",
                     content |-> "Identify the Country in which the Name called "
                                 \o query \o " is Located"]>>]

Return(value) == [exc |-> "none", value |-> value]
Raise(name) == [exc |-> name, value |-> ""]

\* line 127: response.json().get("choices", [{}])[0].get("message", {}).get("content", ...)
first_choice_content(body) ==
    LET choices == Get(body, "choices", <<EmptyDict>>)
    IN  IF choices = <<>> THEN Raise("IndexError")
        ELSE Return(Get(Get(choices[1], "message", EmptyDict), "content", "No response"))

\* GroqProcessor.process_results after the POST. json_error_caught: whether the
\* installed requests raises its JSONDecodeError as a RequestException
\* (requests >= 2.27) or as a plain ValueError.
process_results(query, context, reply, json_error_caught) ==
    IF reply.status = 0
    THEN Return("Groq processing error: " \o reply.error)
    ELSE IF reply.json.type = "invalid"
    THEN IF json_error_caught
         THEN Return("Groq processing error: " \o reply.error)
         ELSE Raise("ValueError")
    ELSE IF HttpError(reply)
    THEN Return("Groq processing error: " \o reply.error)
    ELSE first_choice_content(reply.json.value)

\* what process_results renders with st.write before raise_for_status
process_results_writes(reply) ==
    IF reply.status # 0 /\ reply.json.type # "invalid"
    THEN <<Rendered("write", "Groq API Process Response:")>>
    ELSE <<>>

----------------------------------------------------------------------------
(* Widgets: the values the user can give them in one run *)

\* st.multiselect over data.columns: the order of selection is kept
Selections(columns) ==
    {sel \in {<<>>, <<"Name">>, <<"City", "Name">>} :
        \A i \in 1..Len(sel) : \E j \in 1..Len(columns) : columns[j] = sel[i]}

WhereIs == <<"W", "h", "e", "r", "e", " ", "i", "s", " ">>
EntityField == <<"{", "e", "n", "t", "i", "t", "y", "}">>
NameField == <<"{", "n", "a", "m", "e", "}">>

\* st.text_input("Enter search query :")
QueryTemplates == {WhereIs \o EntityField, WhereIs, NameField}

----------------------------------------------------------------------------
(* The Extract handler, lines 176-198 *)

\* variant: the last selected column is read
entity_of_last(row, selected) == row[selected[Len(selected)]]

\* line 179: entity = row[selected_columns[0]]
entity_of(row, selected) == row[selected[1]]

\* variant: a result that still has organic results is not taken as failed
has_error_no_results(search_results) ==
    "error" \in DOMAIN search_results /\ "organic_results" \notin DOMAIN search_results

\* line 182: "error" in search_results, for a mapping
has_error(search_results) == "error" \in DOMAIN search_results

\* line 183: " ".join(result.get("snippet", "") for result in ...get("organic_results", []))
build_context(search_results) ==
    LET organic == Get(search_results, "organic_results", <<>>)
    IN  Join(" ", [i \in 1..Len(organic) |-> Get(organic[i], "snippet", "")])

\* lines 185 and 187: the dict appended to results
record(entity, response) == [Entity |-> entity, Response |-> response]

\* variant: a fixed text is recorded for a failed search
error_record_generic(entity, search_results) == record(entity, "Search failed")

\* line 187
error_record(entity, search_results) == record(entity, search_results["error"])

\* variant: the loop stays on the row (the row is tried again)
next_row_retry(i) == i

\* the for statement: the row after this one
next_row(i) == i + 1

\* variant: the loop stops one row early
loop_finished_early(i, table) == i >= Len(table.rows)

\* the for statement is exhausted
loop_finished(i, table) == i > Len(table.rows)

Pending == Reply(-1, "", InvalidJson)

SearchRequest(row, query, api_key) ==
    [api |-> "serpapi", row |-> row, done |-> FALSE, reply |-> Pending,
     call |-> [query |-> query, context |-> ""],
     request |-> [method |-> "GET", url |-> "https://serpapi.com/search",
                  body |-> [engine |-> "google", q |-> query, api_key |-> api_key]]]

GroqRequest(row, query, context, api_key) ==
    [api |-> "groq", row |-> row, done |-> FALSE, reply |-> Pending,
     call |-> [query |-> query, context |-> context],
     request |-> [method |-> "POST",
                  url |-> "https://api.groq.com/openai/v1/chat/completions",
                  body |-> GroqPayload(query, context)]]

\* the request in flight has been answered
Answered(log, reply) ==
    [log EXCEPT ![Len(log)] = [@ EXCEPT !.done = TRUE, !.reply = reply]]

\* DataFrame.to_csv(index=False) of the result table, as lines (no value of the
\* model holds a character that to_csv would quote)
to_csv(rows) ==
    IF rows = <<>> THEN <<"">>
    ELSE <<"Entity,Response">>
         \o [i \in 1..Len(rows) |-> rows[i].Entity \o "," \o rows[i].Response]

NoDownload == [offered |-> FALSE, file_name |-> "", mime |-> "", data |-> <<>>]

----------------------------------------------------------------------------
(* Actions *)

Init ==
    /\ env \in Environments
    /\ pc = "Dashboard"
    /\ components = {}
    /\ data = None
    /\ selected_columns = <<>>
    /\ query_template = <<>>
    /\ results = <<>>
    /\ idx = 0
    /\ net = <<>>
    /\ ui = <<>>
    /\ slept = 0
    /\ raised = "none"
    /\ results_df = <<>>
    /\ displayed = FALSE
    /\ download = NoDownload
    /\ source = NoSource
    /\ fmt = FmtOk("")

\* Dashboard.__init__ line 138: validate_api_keys(), lines 19-31
validate_api_keys ==
    /\ pc = "Dashboard"
    /\ LET missing == missing_keys(env)
       IN  IF missing # <<>>
           THEN /\ ui' = Append(ui, Rendered("error",
                                  "Missing API keys: " \o Join(", ", missing)))
                /\ pc' = "stopped"                       \* st.stop()
           ELSE /\ ui' = ui
                /\ pc' = "construct"
    /\ UNCHANGED <<env, components, data, selected_columns, query_template, results,
                   idx, net, slept, raised, results_df, displayed, download,
                   source, fmt>>

\* Dashboard.__init__ lines 140-145, up to the call of setup_ui
Dashboard_init ==
    /\ pc = "construct"
    /\ components' = {"DataManager", "WebSearcher", "GroqProcessor"}
    /\ data' = None
    /\ pc' = "setup_ui"
    /\ UNCHANGED <<env, selected_columns, query_template, results, idx, net, ui,
                   slept, raised, results_df, displayed, download,
                   source, fmt>>

\* what setup_ui renders before the loader runs
SetupHeader == <<Rendered("title", "Mutyala Shashank's AI Data Extraction Dashboard"),
                 Rendered("header", "1. Data Input")>>

\* setup_ui lines 163-164, given what was read and the value the loader returned
AfterLoad(given, loaded) ==
    /\ source' = given
    /\ data' = loaded.df
    /\ ui' = ui \o SetupHeader \o <<loaded.msg>>
    /\ pc' = IF loaded.df # None THEN "options" ELSE "finished"
    /\ UNCHANGED <<env, components, selected_columns, query_template, results, idx,
                   net, slept, raised, results_df, displayed, download, fmt>>

\* setup_ui with "CSV Upload" and a file uploaded
setup_ui_csv ==
    /\ pc = "setup_ui"
    /\ \E file \in UploadedFiles : AfterLoad(file, load_csv(file))

\* setup_ui with "Google Sheets" and a URL entered
setup_ui_gsheet ==
    /\ pc = "setup_ui"
    /\ \E sheet \in Sheets : AfterLoad(sheet, load_gsheet(sheet))

\* setup_ui with no file uploaded, or no URL entered: no loader runs
setup_ui_no_input ==
    /\ pc = "setup_ui"
    /\ ui' = ui \o SetupHeader
    /\ pc' = "finished"
    /\ UNCHANGED <<env, components, data, selected_columns, query_template, results,
                   idx, net, slept, raised, results_df, displayed, download,
                   source, fmt>>

\* show_data_processing_options lines 168-177
show_data_processing_options ==
    /\ pc = "options"
    /\ \E selected \in Selections(data.columns), template \in QueryTemplates,
          clicked \in BOOLEAN :
          /\ selected_columns' = selected
          /\ ui' = ui \o <<Rendered("header", "2. Data Configuration"),
                           Rendered("dataframe", "data.head()")>>
                      \o (IF selected # <<>>
                          THEN <<Rendered("subheader", "3. Extract Information")>>
                          ELSE <<>>)
          /\ IF selected = <<>>
             THEN /\ pc' = "finished"
                  /\ UNCHANGED <<query_template, idx>>
             ELSE /\ query_template' = template
                  /\ IF clicked
                     THEN pc' = "loop" /\ idx' = 1
                     ELSE pc' = "finished" /\ idx' = idx
    /\ results' = <<>>
    /\ UNCHANGED <<env, components, data, net, slept, raised, results_df,
                   displayed, download, source, fmt>>

\* lines 178-181, 87-88: the next row is taken, the query formatted, the GET sent
loop_row ==
    /\ pc = "loop"
    /\ ~loop_finished(idx, data)
    /\ LET entity == entity_of(data.rows[idx], selected_columns)
           f == FormatQuery(query_template, entity)
       IN  /\ fmt' = f
           /\ IF f.exc # "none"
              THEN /\ raised' = f.exc
                   /\ pc' = "raised"
                   /\ net' = net
              ELSE /\ raised' = raised
                   /\ pc' = "search"
                   /\ net' = Append(net, SearchRequest(idx, f.val, env.SERPAPI_KEY))
    /\ UNCHANGED <<env, components, data, selected_columns, query_template, results,
                   idx, ui, slept, results_df, displayed, download, source>>

\* lines 88-94 and 182-187: the GET is answered; the row is recorded as failed,
\* or the POST of process_results is sent (lines 119-124)
search_returns ==
    /\ pc = "search"
    /\ \E reply \in SearchReplies :
          LET entity == entity_of(data.rows[idx], selected_columns)
              s == search(fmt.val, reply)
              answered == Answered(net, reply)
          IN  /\ slept' = slept + s.sleep
              /\ ui' = IF s.warning # "" THEN Append(ui, Rendered("warning", s.warning))
                       ELSE ui
              /\ IF s.ret.type # "object"
                 THEN \* a JSON array has no .get: AttributeError on line 183
                      /\ raised' = "AttributeError"
                      /\ pc' = "raised"
                      /\ net' = answered
                      /\ UNCHANGED <<results, idx>>
                 ELSE IF ~has_error(s.ret.value)
                 THEN /\ net' = Append(answered,
                                  GroqRequest(idx, entity, build_context(s.ret.value),
                                              env.GROQ_API_KEY))
                      /\ pc' = "groq"
                      /\ UNCHANGED <<results, idx, raised>>
                 ELSE /\ results' = Append(results, error_record(entity, s.ret.value))
                      /\ idx' = next_row(idx)
                      /\ pc' = "loop"
                      /\ net' = answered
                      /\ raised' = raised
    /\ UNCHANGED <<env, components, data, selected_columns, query_template,
                   results_df, displayed, download,
                   source, fmt>>

\* lines 124-129 and 184-185: the POST is answered
process_returns ==
    /\ pc = "groq"
    /\ \E reply \in GroqReplies, json_error_caught \in BOOLEAN :
          LET call == net[Len(net)].call
              r == process_results(call.query, call.context, reply, json_error_caught)
          IN  /\ net' = Answered(net, reply)
              /\ ui' = ui \o process_results_writes(reply)
              /\ IF r.exc # "none"
                 THEN /\ raised' = r.exc
                      /\ pc' = "raised"
                      /\ UNCHANGED <<results, idx>>
                 ELSE /\ results' = Append(results, record(call.query, r.value))
                      /\ idx' = next_row(idx)
                      /\ pc' = "loop"
                      /\ raised' = raised
    /\ UNCHANGED <<env, components, data, selected_columns, query_template, slept,
                   results_df, displayed, download,
                   source, fmt>>

\* lines 189-196: after the loop the table is built, shown and offered; the
\* "Update Google Sheet" button is first rendered in this run, so it is False
show_results ==
    /\ pc = "loop"
    /\ loop_finished(idx, data)
    /\ results_df' = results
    /\ displayed' = TRUE
    /\ ui' = Append(ui, Rendered("dataframe", "results_df"))
    /\ download' = [offered |-> TRUE, file_name |-> "extracted_data.csv",
                    mime |-> "text/csv", data |-> to_csv(results)]
    /\ pc' = "finished"
    /\ UNCHANGED <<env, components, data, selected_columns, query_template, results,
                   idx, net, slept, raised, source, fmt>>

\* the host process is terminated while the loop runs
terminate ==
    /\ pc \in {"loop", "search", "groq"}
    /\ pc' = "killed"
    /\ UNCHANGED <<env, components, data, selected_columns, query_template, results,
                   idx, net, ui, slept, raised, results_df, displayed, download,
                   source, fmt>>

Next ==
    \/ validate_api_keys
    \/ Dashboard_init
    \/ setup_ui_csv
    \/ setup_ui_gsheet
    \/ setup_ui_no_input
    \/ show_data_processing_options
    \/ loop_row
    \/ search_returns
    \/ process_returns
    \/ show_results
    \/ terminate

Spec == Init /\ [][Next]_vars

----------------------------------------------------------------------------
(* The formatting specification: line 180 alone, over many templates *)

Pieces == {<<"{">>, <<"}">>, <<"e", "n", "t", "i", "t", "y">>,
           <<"n", "a", "m", "e">>, WhereIs}

RECURSIVE Flatten(_)
Flatten(seqs) == IF seqs = <<>> THEN <<>> ELSE Head(seqs) \o Flatten(Tail(seqs))

FormatTemplates == {Flatten(p) : p \in SeqUpTo(Pieces, MaxPieces)}

InitFormat ==
    /\ env = [SERPAPI_KEY |-> "serp-key", GROQ_API_KEY |-> "groq-key",
              GOOGLE_CREDS_PATH |-> "creds.json"]
    /\ pc = "format"
    /\ components = {"DataManager", "WebSearcher", "GroqProcessor"}
    /\ \E r \in RowSet :
          /\ source = [kind |-> "csv", error |-> "none", records |-> <<r>>]
          /\ data = read_csv(source)
    /\ selected_columns = <<"Name">>
    /\ query_template \in FormatTemplates
    /\ results = <<>>
    /\ idx = 1
    /\ net = <<>>
    /\ ui = <<>>
    /\ slept = 0
    /\ raised = "none"
    /\ results_df = <<>>
    /\ displayed = FALSE
    /\ download = NoDownload
    /\ fmt = FmtOk("")

\* lines 179-180 for the row at idx
format_query ==
    /\ pc = "format"
    /\ fmt' = FormatQuery(query_template, entity_of(data.rows[idx], selected_columns))
    /\ raised' = fmt'.exc
    /\ pc' = "formatted"
    /\ UNCHANGED <<env, components, data, selected_columns, query_template, results,
                   idx, net, ui, slept, results_df, displayed, download, source>>

NextFormat == format_query

SpecFormat == InitFormat /\ [][NextFormat]_vars

----------------------------------------------------------------------------
(* Properties *)

\* the requests of one API sent for one row
Sent(api, row) == {k \in 1..Len(net) : net[k].api = api /\ net[k].row = row}

\* the answered search requests
Searched == {k \in 1..Len(net) : net[k].api = "serpapi" /\ net[k].done}

\* what WebSearcher.search returned for an answered search request
Returned(k) == search(net[k].call.query, net[k].reply).ret

\* search returned a mapping with a top-level "error" key
ErrorTagged(k) == Returned(k).type = "object" /\ "error" \in DOMAIN Returned(k).value

InLoop == pc \in {"loop", "search", "groq"}

\* C1: when the Extract handler finishes, the output table has one record per
\* input row, in input order, whose Entity is the row's value in the first
\* selected column; while the loop runs the records so far are those of the
\* rows already handled. Repeated entities are not merged.
C1_OneRecordPerRow ==
    /\ displayed =>
          /\ Len(results_df) = Len(data.rows)
          /\ \A i \in 1..Len(data.rows) :
                results_df[i].Entity = data.rows[i][selected_columns[1]]
    /\ InLoop =>
          /\ Len(results) = idx - 1
          /\ \A i \in 1..Len(results) :
                results[i].Entity = data.rows[i][selected_columns[1]]

C1_Witness ==
    /\ displayed
    /\ Len(data.rows) = 2
    /\ data.rows[1] = data.rows[2]
    /\ selected_columns[1] = "City"
    /\ results_df[1].Response # results_df[2].Response

\* C2: once search has returned an error-tagged result for a row, the row's
\* record holds the error string verbatim, no summarization request exists for
\* the row, and the loop has moved on to the next row.
C2_SearchErrorRecorded ==
    \A k \in Searched :
        ErrorTagged(k) =>
            /\ Len(results) >= net[k].row
            /\ results[net[k].row].Response = Returned(k).value.error
            /\ Sent("groq", net[k].row) = {}
            /\ idx > net[k].row

C2_Witness ==
    /\ displayed
    /\ Len(results_df) = 2
    /\ \E k \in Searched : net[k].row = 1 /\ net[k].reply.status = 0
    /\ Sent("serpapi", 2) # {}

\* the summarization replies the claim calls failures
SummarizationFailed(reply) ==
    \/ reply.status = 0
    \/ reply.status >= 400
    \/ reply.json.type = "invalid"
    \/ /\ reply.json.type = "object"
       /\ "choices" \in DOMAIN reply.json.value
       /\ reply.json.value.choices = <<>>

GroqErrorStrings ==
    {"Groq processing error: " \o m :
        m \in {"Connection refused", "401 Client Error", "Expecting value",
               "list index out of range"}}

\* C3: whenever the summarization call of a row has failed (transport, HTTP
\* status, or a body of the wrong shape) nothing escapes process_results, the
\* row's record holds the formatted error string, and the loop has moved on.
C3_SummarizationFailureCaught ==
    \A k \in 1..Len(net) :
        (net[k].api = "groq" /\ net[k].done /\ SummarizationFailed(net[k].reply)) =>
            /\ raised = "none"
            /\ Len(results) >= net[k].row
            /\ results[net[k].row].Response \in GroqErrorStrings
            /\ idx > net[k].row

\* the list validate_api_keys should report, from the configuration alone
C4_Missing ==
    (IF env.SERPAPI_KEY \in {Unset, ""} THEN <<"SERPAPI_KEY">> ELSE <<>>)
    \o (IF env.GROQ_API_KEY \in {Unset, ""} THEN <<"GROQ_API_KEY">> ELSE <<>>)
    \o (IF env.GOOGLE_CREDS_PATH \notin ExistingFiles
        THEN <<"GOOGLE_CREDS_PATH">> ELSE <<>>)

\* C4: if any configuration input is missing, the run stops in
\* validate_api_keys with an error listing exactly the missing items; nothing
\* is constructed, loaded, requested or processed.
C4_MissingConfigHalts ==
    (C4_Missing # <<>> /\ pc # "Dashboard") =>
        /\ pc = "stopped"
        /\ ui = <<Rendered("error", "Missing API keys: " \o Join(", ", C4_Missing))>>
        /\ components = {}
        /\ data = None
        /\ source = NoSource
        /\ net = <<>>
        /\ results = <<>>
        /\ idx = 0
        /\ ~displayed

C4_Witness ==
    /\ pc = "stopped"
    /\ env.SERPAPI_KEY = ""
    /\ env.GROQ_API_KEY = "groq-key"
    /\ env.GOOGLE_CREDS_PATH = "missing.json"

\* the template holds the token {entity}
HasPlaceholder(template) ==
    \E i \in 1..Len(template) :
        /\ i + Len(EntityField) - 1 <= Len(template)
        /\ SubSeq(template, i, i + Len(EntityField) - 1) = EntityField

HasBrace(template) == \E i \in 1..Len(template) : IsBrace(template[i])

\* C5 as stated: every template without the token {entity}, braces or not,
\* formats without raising to the template itself.
C5_NoPlaceholderLiteral ==
    (pc = "formatted" /\ ~HasPlaceholder(query_template)) =>
        fmt = FmtOk(Str(query_template))

\* C5 as amended: every template without any brace character formats without
\* raising to the template itself, whatever the entity.
C5_NoBraceLiteral ==
    (pc = "formatted" /\ ~HasBrace(query_template)) =>
        /\ fmt = FmtOk(Str(query_template))
        /\ raised = "none"

C5_Witness ==
    /\ pc = "formatted"
    /\ Str(query_template) = "Where is entity"
    /\ fmt.val = "Where is entity"

\* C6: the summarization request carries the entity and the context, so that
\* two calls that differ in the entity or in the context send different bodies.
C6_RequestCarriesContext ==
    \A k, l \in 1..Len(net) :
        (net[k].api = "groq" /\ net[l].api = "groq" /\ net[k].call # net[l].call) =>
            net[k].request.body # net[l].request.body

\* C7: once setup_ui has run the loader, either the read succeeded and data is
\* the whole table read, or it failed and data is None, the error is the last
\* thing rendered, the options are not shown and nothing is requested.
C7_LoadedOrFailed ==
    source.kind # "none" =>
        \/ /\ source.error = "none"
           /\ data # None
           /\ data.rows = source.records
        \/ /\ source.error # "none"
           /\ data = None
           /\ pc = "finished"
           /\ ui[Len(ui)].kind = "error"
           /\ \A i \in 1..Len(ui) : ui[i].text # "2. Data Configuration"
           /\ net = <<>>
           /\ results = <<>>
           /\ ~displayed

C7_Witness ==
    /\ source.kind = "csv"
    /\ source.error = "Error tokenizing data"
    /\ data = None
    /\ pc = "finished"

\* C8: the requests form a sequential trace: only the last one can be
\* unanswered, rows appear in order, a row has at most one search and at most
\* one summarization request, the search first and answered, a recorded row
\* has exactly one search, and a finished run has one search per row.
C8_SequentialTrace ==
    /\ \A k \in 1..Len(net) : k < Len(net) => net[k].done
    /\ \A k, l \in 1..Len(net) :
          k < l => /\ net[k].row <= net[l].row
                   /\ net[k].row = net[l].row =>
                         (net[k].api = "serpapi" /\ net[l].api = "groq")
    /\ \A l \in 1..Len(net) :
          net[l].api = "groq" =>
              \E k \in 1..(l - 1) : /\ net[k].api = "serpapi"
                                    /\ net[k].row = net[l].row
                                    /\ net[k].done
    /\ \A i \in 1..Len(results) : Cardinality(Sent("serpapi", i)) = 1
    /\ displayed =>
          \A i \in 1..Len(data.rows) :
              /\ Cardinality(Sent("serpapi", i)) = 1
              /\ Cardinality(Sent("groq", i)) <= 1

C8_Witness ==
    /\ displayed
    /\ Len(net) = 3
    /\ net[1].api = "serpapi" /\ net[1].reply.status = 401
    /\ net[3].api = "groq" /\ net[3].reply.status = 0

\* C9: the result table is shown and offered only once every row has been
\* handled; while the loop runs, and after it was cut short by a termination
\* or an escaping exception, nothing of it is shown or offered.
C9_NoPartialResults ==
    /\ (displayed \/ download.offered) =>
          /\ pc = "finished"
          /\ idx > Len(data.rows)
          /\ Len(results) = Len(data.rows)
          /\ results_df = results
    /\ (InLoop \/ pc \in {"raised", "killed"}) =>
          /\ ~displayed
          /\ ~download.offered
          /\ results_df = <<>>
          /\ \A i \in 1..Len(ui) : ui[i].text # "results_df"

C9_Witness ==
    /\ pc = "raised"
    /\ Len(results) = 1
    /\ ~displayed

\* the answered searches that failed inside search (a warning is rendered)
SearchRaised == {k \in Searched : \/ net[k].reply.status # 200
                                  \/ net[k].reply.json.type = "invalid"}

\* the answered searches with status OK whose JSON body has an "error" field
BodyError(k) ==
    /\ net[k].reply.status = 200
    /\ net[k].reply.json.type = "object"
    /\ "error" \in DOMAIN net[k].reply.json.value

\* C10: for a mapping returned by search, a summarization request exists for
\* the row exactly when the mapping has no "error" key; a status-OK body with
\* an "error" field is recorded with that value, without summarization and
\* without a warning, after the delay was applied.
C10_ErrorKeyDecides ==
    /\ \A k \in Searched :
          Returned(k).type = "object" =>
              (Sent("groq", net[k].row) # {} <=> ~ErrorTagged(k))
    /\ \A k \in Searched :
          BodyError(k) =>
              /\ Len(results) >= net[k].row
              /\ results[net[k].row].Response = net[k].reply.json.value.error
              /\ Sent("groq", net[k].row) = {}
    /\ Cardinality({i \in 1..Len(ui) : ui[i].kind = "warning"})
          = Cardinality(SearchRaised)
    /\ slept = rate_limit_delay
                 * Cardinality({k \in Searched : net[k].reply.status = 200})

C10_Witness ==
    /\ displayed
    /\ \E k \in Searched : BodyError(k) /\ net[k].row = 1
    /\ \A i \in 1..Len(ui) : ui[i].kind # "warning"
    /\ slept = 1

====
